---- MODULE Spec2Model ----
(***************************************************************************)
(* Model of the two serverless proxy handlers of api/gemini-2.5-flash.ts:  *)
(* the gemini-2.5-flash handler (lines 1-67, "flash") and the patched      *)
(* gemini-2.5-flash-image-preview handler (lines 69-162, "image").         *)
(*                                                                         *)
(* One behaviour is one invocation.  The synchronous prefix of a handler   *)
(* (CORS headers, admission checks, body parsing, sanitising, issuing the  *)
(* fetch) is one step; the two awaits (fetch, upstream.text()) are the     *)
(* only suspension points and each resolves or rejects in a step of its    *)
(* own.                                                                    *)
(*                                                                         *)
(* Text that the code takes apart (Origin, ALLOWED_ORIGINS) is a sequence  *)
(* of one-character strings; text the code only compares or copies is a    *)
(* TLA+ string.  A value that may be undefined is None or Some(x).         *)
(***************************************************************************)
EXTENDS Integers, Sequences, FiniteSets

VARIABLES variant, env, req, res, pc, upstream, outbound, fetchCount

vars == <<variant, env, req, res, pc, upstream, outbound, fetchCount>>

\* Longest ALLOWED_ORIGINS text enumerated character by character.
MaxEnvLen == 2

----------------------------------------------------------------------------
\* Optional values (undefined / a value)

None == <<>>
Some(x) == <<x>>
\* JavaScript `x || ''` on an optional string held as a sequence of characters
OrEmptySeq(o) == IF o = None THEN <<>> ELSE o[1]
\* JavaScript `x || ''` on an optional string held as a TLA+ string
OrEmptyStr(o) == IF o = None THEN "" ELSE o[1]

----------------------------------------------------------------------------
\* String operations used by the allow-list parser

Min(S) == CHOOSE x \in S : \A y \in S : x <= y
Max(S) == CHOOSE x \in S : \A y \in S : x >= y

\* String.prototype.split(',')
RECURSIVE Split(_)
Split(s) ==
  IF \E i \in 1..Len(s) : s[i] = ","
  THEN LET i == Min({k \in 1..Len(s) : s[k] = ","})
       IN  <<SubSeq(s, 1, i - 1)>> \o Split(SubSeq(s, i + 1, Len(s)))
  ELSE <<s>>

\* String.prototype.trim()
Trim(s) ==
  LET keep == {i \in 1..Len(s) : s[i] # " "}
  IN  IF keep = {} THEN <<>> ELSE SubSeq(s, Min(keep), Max(keep))

\* list.split(',').map(s => s.trim()).filter(Boolean)
SplitTrimFilter(list) ==
  LET parts == Split(list)
      trimmed == [i \in 1..Len(parts) |-> Trim(parts[i])]
  IN  SelectSeq(trimmed, LAMBDA p : p # <<>>)

\* getAllowedOrigins(): process.env.ALLOWED_ORIGINS || '' , split, trim, filter
getAllowedOrigins(e) == SplitTrimFilter(OrEmptySeq(e.ALLOWED_ORIGINS))

\* parseAllowed(): the same parser in the image-preview file
parseAllowed(e) == SplitTrimFilter(OrEmptySeq(e.ALLOWED_ORIGINS))

\* Array.prototype.includes
Includes(list, x) == \E i \in 1..Len(list) : list[i] = x

NullOrigin == <<"n", "u", "l", "l">>
Star == <<"*">>

\* flash handler, line 15: the value of allowOrigin ('' is <<>>)
FlashAllowOrigin(origin, allowList) ==
  IF Len(allowList) = 0 \/ Includes(allowList, origin)
  THEN (IF origin # <<>> THEN origin ELSE Star)
  ELSE <<>>

\* ImageAllowOrigin with the allow-list matched by prefix instead of exactly
ImageAllowOriginPrefix(origin, allowList) ==
  IF \/ Len(allowList) = 0
     \/ \E i \in 1..Len(allowList) :
          /\ Len(allowList[i]) <= Len(origin)
          /\ SubSeq(origin, 1, Len(allowList[i])) = allowList[i]
     \/ origin = NullOrigin
  THEN (IF origin # <<>> THEN origin ELSE Star)
  ELSE <<>>

\* setCors, lines 91-92: the value of allowOrigin ('' is <<>>)
ImageAllowOrigin(origin, allowList) ==
  IF Len(allowList) = 0 \/ Includes(allowList, origin) \/ origin = NullOrigin
  THEN (IF origin # <<>> THEN origin ELSE Star)
  ELSE <<>>

----------------------------------------------------------------------------
\* JSON values.  Every value is [t |-> type tag, v |-> payload]; the payload
\* of a scalar is its text, the payload of an object is a record of its
\* properties in which a property the object does not have holds Undefined.

Undefined == [t |-> "undefined", v |-> "undefined"]
JNull == [t |-> "null", v |-> "null"]
JStr(s) == [t |-> "string", v |-> s]
JNum(n) == [t |-> "number", v |-> n]
JBool(b) == [t |-> "boolean", v |-> b]
JObj(props) == [t |-> "object", v |-> props]

\* a generationConfig object
GenConfig(mime, temp) == JObj([response_mime_type |-> mime, temperature |-> temp])
\* a request body object
BodyObj(gc, contents) == JObj([generationConfig |-> gc, contents |-> contents])
EmptyObj == BodyObj(Undefined, Undefined)

\* JavaScript truthiness (ToBoolean)
Truthy(x) ==
  CASE x.t = "undefined" -> FALSE
    [] x.t = "null" -> FALSE
    [] x.t = "boolean" -> x.v = "true"
    [] x.t = "number" -> x.v # "0"
    [] x.t = "string" -> x.v # ""
    [] OTHER -> TRUE

\* typeof x === 'object' (true of null as well)
TypeofObject(x) == x.t \in {"object", "null"}

\* x?.key : undefined on null and undefined, and on anything without the property
OptGet(x, key) ==
  IF x.t = "object" /\ key \in DOMAIN x.v THEN x.v[key] ELSE Undefined

\* JSON.parse on the request texts of the model; "SyntaxError" when it throws
JSONparse(text) ==
  CASE text = "{}" -> [ok |-> TRUE, val |-> EmptyObj]
    [] text = "null" -> [ok |-> TRUE, val |-> JNull]
    [] text = "0" -> [ok |-> TRUE, val |-> JNum("0")]
    [] text = "true" -> [ok |-> TRUE, val |-> JBool("true")]
    [] text = "{\"contents\":\"hi\"}" ->
         [ok |-> TRUE, val |-> BodyObj(Undefined, JStr("hi"))]
    [] text = "{\"generationConfig\":{\"response_mime_type\":\"text/plain\"},\"contents\":\"hi\"}" ->
         [ok |-> TRUE, val |-> BodyObj(GenConfig(JStr("text/plain"), Undefined), JStr("hi"))]
    [] OTHER -> [ok |-> FALSE, val |-> Undefined]

\* lines 36-40 / 128-132:
\*   typeof req.body === 'object' ? req.body : JSON.parse(req.body || '{}')
ParseBody(b) ==
  IF TypeofObject(b) THEN [ok |-> TRUE, val |-> b]
  ELSE IF ~Truthy(b) THEN JSONparse("{}")
  ELSE JSONparse(b.v)

\* lines 43-47 / 135-139: delete body.generationConfig.response_mime_type
\* when body?.generationConfig?.response_mime_type is truthy
Sanitize(body) ==
  IF Truthy(OptGet(OptGet(body, "generationConfig"), "response_mime_type"))
  THEN [body EXCEPT !.v.generationConfig.v.response_mime_type = Undefined]
  ELSE body

----------------------------------------------------------------------------
\* Thrown values: [t, name, v]; v is an Error's message or a string's text.

ErrorObj(name, message) == [t |-> "Error", name |-> name, v |-> message]
ThrownString(s) == [t |-> "string", name |-> "", v |-> s]
ThrownUndefined == [t |-> "undefined", name |-> "", v |-> ""]

\* String(err): Error.prototype.toString for an Error, the text of a string
ToString(err) ==
  CASE err.t = "Error" ->
         IF err.name = "" THEN err.v
         ELSE IF err.v = "" THEN err.name
         ELSE err.name \o ": " \o err.v
    [] err.t = "string" -> err.v
    [] OTHER -> "undefined"

\* Detail without the fallback to the thrown value: String(err?.message)
DetailMessageOnly(err) ==
  IF err.t = "Error" THEN err.v ELSE "undefined"

\* lines 65 / 160: String(err?.message || err)
Detail(err) ==
  IF err.t = "Error" /\ err.v # "" THEN err.v ELSE ToString(err)

\* RelayContentType that never mirrors the upstream
RelayContentTypeJson(ct) == "application/json"

\* lines 61 / 153: upstream.headers.get('Content-Type') || 'application/json'
RelayContentType(ct) ==
  IF ct # None /\ ct[1] # "" THEN ct[1] ELSE "application/json"

----------------------------------------------------------------------------
\* The response object

ALLOW_METHODS == "POST, OPTIONS"
ALLOW_HEADERS == "Content-Type, X-Client-Token"

NoHeaders == [acao |-> None, acam |-> None, acah |-> None, vary |-> None, ct |-> None]
NoBody == [kind |-> "none", error |-> "", detail |-> None, text |-> ""]
FreshRes == [status |-> 200, headers |-> NoHeaders, body |-> NoBody, sent |-> 0]

\* res.status(code).end()
ResEnd(r, code) ==
  [r EXCEPT !.status = code,
            !.body = [kind |-> "empty", error |-> "", detail |-> None, text |-> ""],
            !.sent = @ + 1]

\* res.status(code).json({ error, detail })
ResJson(r, code, error, detail) ==
  [r EXCEPT !.status = code,
            !.headers.ct = Some("application/json; charset=utf-8"),
            !.body = [kind |-> "json", error |-> error, detail |-> detail, text |-> ""],
            !.sent = @ + 1]

\* res.send(text)
ResSend(r, text) ==
  [r EXCEPT !.body = [kind |-> "text", error |-> "", detail |-> None, text |-> text],
            !.sent = @ + 1]

\* flash handler, lines 13-20: the CORS headers, set once at entry
FlashCors(r, originHeader, e) ==
  LET origin == OrEmptySeq(originHeader)
      allowOrigin == FlashAllowOrigin(origin, getAllowedOrigins(e))
      h == [r.headers EXCEPT !.acam = Some(ALLOW_METHODS), !.acah = Some(ALLOW_HEADERS)]
  IN  [r EXCEPT !.headers =
         IF allowOrigin # <<>> THEN [h EXCEPT !.acao = Some(allowOrigin)] ELSE h]

\* flash handler, line 62: Access-Control-Allow-Origin set again before send
FlashCorsAgain(r, originHeader, e) ==
  LET allowOrigin == FlashAllowOrigin(OrEmptySeq(originHeader), getAllowedOrigins(e))
  IN  IF allowOrigin # <<>> THEN [r EXCEPT !.headers.acao = Some(allowOrigin)] ELSE r

\* setCors(res, originHeader), lines 87-99
setCors(r, originHeader, e) ==
  LET origin == OrEmptySeq(originHeader)
      allowOrigin == ImageAllowOrigin(origin, parseAllowed(e))
      h == IF allowOrigin # <<>> THEN [r.headers EXCEPT !.acao = Some(allowOrigin)]
           ELSE r.headers
  IN  [r EXCEPT !.headers =
         [h EXCEPT !.vary = Some("Origin"),
                   !.acam = Some(ALLOW_METHODS),
                   !.acah = Some(ALLOW_HEADERS)]]

\* the CORS headers a handler sets on entry (line 13-20 / line 103)
EntryCors(v, r, originHeader, e) ==
  IF v = "flash" THEN FlashCors(r, originHeader, e) ELSE setCors(r, originHeader, e)

\* the CORS headers set before the upstream response is relayed (line 62 / 155)
RelayCors(v, r, originHeader, e) ==
  IF v = "flash" THEN FlashCorsAgain(r, originHeader, e) ELSE setCors(r, originHeader, e)

\* the CORS headers set in the catch block (nothing / line 159)
CatchCors(v, r, originHeader, e) ==
  IF v = "flash" THEN r ELSE setCors(r, originHeader, e)

\* lines 3-4 and 78
ENDPOINT(v) ==
  IF v = "flash"
  THEN "https://generativelanguage.googleapis.com/v1beta/models/gemini-2.5-flash:generateContent"
  ELSE "https://generativelanguage.googleapis.com/v1beta/models/gemini-2.5-flash-image-preview:generateContent"

----------------------------------------------------------------------------
\* The inputs of an invocation

Variants == {"flash", "image"}
Methods == {"OPTIONS", "POST", "GET"}

ListAlphabet == {"a", ",", " "}
ListTexts ==
  UNION {[1..k -> ListAlphabet] : k \in 0..MaxEnvLen}
    \cup {NullOrigin, <<"a", ",">> \o NullOrigin}
AllowedOriginsValues == {None} \cup {Some(s) : s \in ListTexts}

OriginHeaders ==
  {None, Some(<<"a">>), Some(<<"b">>), Some(<<"a", ",">>), Some(NullOrigin)}

ApiKeys == {None, Some(""), Some("k")}
ClientTokens == {None, Some(""), Some("t")}
TokenHeaders == {None, Some(""), Some("t"), Some("x")}

MimeValues == {Undefined, JStr("text/plain"), JStr(""), JNull, JBool("false"), JNum("0")}
ObjectBodies ==
  {EmptyObj, BodyObj(Undefined, JStr("hi")), BodyObj(JNull, JStr("hi")),
   BodyObj(JStr("x"), JStr("hi"))}
    \cup {BodyObj(GenConfig(m, t), JStr("hi")) :
            m \in MimeValues, t \in {Undefined, JNum("1")}}
TextBodies ==
  {JStr(""), JStr("{bad"), JStr("{}"), JStr("null"), JStr("{\"contents\":\"hi\"}"),
   JStr("{\"generationConfig\":{\"response_mime_type\":\"text/plain\"},\"contents\":\"hi\"}")}
Bodies == {Undefined, JNull, JNum("0"), JBool("true")} \cup ObjectBodies \cup TextBodies

Input(v, list, key, ctoken, method, origin, token, body) ==
  [variant |-> v,
   env |-> [ALLOWED_ORIGINS |-> list, GEMINI_API_KEY |-> key, CLIENT_TOKEN |-> ctoken],
   req |-> [method |-> method, origin |-> origin, token |-> token, body |-> body]]

\* every Origin against every allow-list, on every response path
CorsInputs ==
  {Input(v, list, key, ctoken, method, origin, None, body) :
     v \in Variants, list \in AllowedOriginsValues, key \in {None, Some("k")},
     ctoken \in {None, Some("t")}, method \in Methods, origin \in OriginHeaders,
     body \in {JStr("{bad"), EmptyObj}}

\* every method, key, required token and token header
AdmissionInputs ==
  {Input(v, None, key, ctoken, method, None, token, body) :
     v \in Variants, key \in ApiKeys, ctoken \in ClientTokens, method \in Methods,
     token \in TokenHeaders, body \in {Undefined, JStr("{bad"), EmptyObj}}

\* every body, admitted
BodyInputs ==
  {Input(v, None, Some("k"), None, "POST", Some(<<"a">>), None, body) :
     v \in Variants, body \in Bodies}

Inputs == CorsInputs \cup AdmissionInputs \cup BodyInputs

\* What the upstream may answer, and what fetch or text() may throw
UpstreamStatuses == {200, 400, 401, 429, 502}
UpstreamContentTypes == {None, Some(""), Some("application/json"), Some("text/plain")}
UpstreamTexts == {"", "{\"candidates\":[]}", "{\"error\":"}
Thrown ==
  {ErrorObj("TypeError", "fetch failed"), ErrorObj("Error", ""),
   ErrorObj("TimeoutError", "The operation was aborted due to timeout"),
   ErrorObj("", ""), ThrownString("boom"), ThrownString(""), ThrownUndefined}

NoErr == [t |-> "none", name |-> "", v |-> ""]
NoUpstream == [phase |-> "none", status |-> 0, ct |-> None, text |-> "", err |-> NoErr]

----------------------------------------------------------------------------
\* The admission checks, in the order of lines 21-40 / 105-132

\* Admission with the token checked before the key
AdmissionTokenFirst(rq, e) ==
  IF rq.method = "OPTIONS" THEN "preflight"
  ELSE IF rq.method # "POST" THEN "method"
  ELSE IF OrEmptyStr(e.CLIENT_TOKEN) # ""
          /\ OrEmptyStr(rq.token) # OrEmptyStr(e.CLIENT_TOKEN) THEN "unauthorized"
  ELSE IF OrEmptyStr(e.GEMINI_API_KEY) = "" THEN "misconfigured"
  ELSE IF ~ParseBody(rq.body).ok THEN "invalid"
  ELSE "forward"

\* Admission with the token compared only when the header was sent
AdmissionLaxToken(rq, e) ==
  IF rq.method = "OPTIONS" THEN "preflight"
  ELSE IF rq.method # "POST" THEN "method"
  ELSE IF OrEmptyStr(e.GEMINI_API_KEY) = "" THEN "misconfigured"
  ELSE IF OrEmptyStr(e.CLIENT_TOKEN) # "" /\ rq.token # None
          /\ rq.token[1] # OrEmptyStr(e.CLIENT_TOKEN) THEN "unauthorized"
  ELSE IF ~ParseBody(rq.body).ok THEN "invalid"
  ELSE "forward"

\* Admission that forwards a body that did not parse
AdmissionNoParseCheck(rq, e) ==
  IF rq.method = "OPTIONS" THEN "preflight"
  ELSE IF rq.method # "POST" THEN "method"
  ELSE IF OrEmptyStr(e.GEMINI_API_KEY) = "" THEN "misconfigured"
  ELSE IF OrEmptyStr(e.CLIENT_TOKEN) # ""
          /\ OrEmptyStr(rq.token) # OrEmptyStr(e.CLIENT_TOKEN) THEN "unauthorized"
  ELSE "forward"

Admission(rq, e) ==
  IF rq.method = "OPTIONS" THEN "preflight"
  ELSE IF rq.method # "POST" THEN "method"
  ELSE IF OrEmptyStr(e.GEMINI_API_KEY) = "" THEN "misconfigured"
  ELSE IF OrEmptyStr(e.CLIENT_TOKEN) # ""
          /\ OrEmptyStr(rq.token) # OrEmptyStr(e.CLIENT_TOKEN) THEN "unauthorized"
  ELSE IF ~ParseBody(rq.body).ok THEN "invalid"
  ELSE "forward"

Init ==
  /\ \E i \in Inputs : variant = i.variant /\ env = i.env /\ req = i.req
  /\ res = FreshRes
  /\ pc = "start"
  /\ upstream = NoUpstream
  /\ outbound = None
  /\ fetchCount = 0

\* the invocations whose control flow differs: every method, key, token and body
FlowInit ==
  /\ \E i \in AdmissionInputs \cup BodyInputs :
       variant = i.variant /\ env = i.env /\ req = i.req
  /\ res = FreshRes
  /\ pc = "start"
  /\ upstream = NoUpstream
  /\ outbound = None
  /\ fetchCount = 0

Respond(r) ==
  /\ res' = r
  /\ pc' = "done"
  /\ UNCHANGED <<variant, env, req, upstream, outbound, fetchCount>>

\* lines 21 / 105-108
Preflight ==
  /\ pc = "start"
  /\ Admission(req, env) = "preflight"
  /\ Respond(ResEnd(EntryCors(variant, res, req.origin, env), 204))

\* lines 22 / 110-112
MethodNotAllowed ==
  /\ pc = "start"
  /\ Admission(req, env) = "method"
  /\ Respond(ResJson(EntryCors(variant, res, req.origin, env), 405,
                     "Only POST allowed", None))

\* lines 24-25 / 114-117
Misconfigured ==
  /\ pc = "start"
  /\ Admission(req, env) = "misconfigured"
  /\ Respond(ResJson(EntryCors(variant, res, req.origin, env), 500,
                     "Server misconfigured: missing GEMINI_API_KEY", None))

\* lines 28-32 / 120-124
Unauthorized ==
  /\ pc = "start"
  /\ Admission(req, env) = "unauthorized"
  /\ Respond(ResJson(EntryCors(variant, res, req.origin, env), 401,
                     "Unauthorized", None))

\* lines 35-40 / 127-132
InvalidJSON ==
  /\ pc = "start"
  /\ Admission(req, env) = "invalid"
  /\ Respond(ResJson(EntryCors(variant, res, req.origin, env), 400,
                     "Invalid JSON", None))

\* lines 43-57 / 135-149: sanitise the body and issue the fetch
Forward ==
  /\ pc = "start"
  /\ Admission(req, env) = "forward"
  /\ res' = EntryCors(variant, res, req.origin, env)
  /\ outbound' = Some([url |-> ENDPOINT(variant),
                       key |-> env.GEMINI_API_KEY[1],
                       body |-> Sanitize(ParseBody(req.body).val)])
  /\ fetchCount' = fetchCount + 1
  /\ upstream' = [upstream EXCEPT !.phase = "pending"]
  /\ pc' = "fetch"
  /\ UNCHANGED <<variant, env, req>>

\* line 50 / 142: the fetch resolves with the upstream's status line and headers
FetchResolves ==
  /\ pc = "fetch"
  /\ \E st \in UpstreamStatuses, ct \in UpstreamContentTypes :
       upstream' = [upstream EXCEPT !.phase = "headers", !.status = st, !.ct = ct]
  /\ pc' = "text"
  /\ UNCHANGED <<variant, env, req, res, outbound, fetchCount>>

\* a catch block that swallows the failure without responding
CatchSwallow(err) ==
  /\ upstream' = [upstream EXCEPT !.phase = "failed", !.err = err]
  /\ pc' = "done"
  /\ UNCHANGED <<variant, env, req, res, outbound, fetchCount>>

\* lines 64-66 / 157-161: the catch block
Catch(err) ==
  /\ upstream' = [upstream EXCEPT !.phase = "failed", !.err = err]
  /\ res' = ResJson(CatchCors(variant, res, req.origin, env), 502,
                    "Upstream fetch failed", Some(Detail(err)))
  /\ pc' = "done"
  /\ UNCHANGED <<variant, env, req, outbound, fetchCount>>

\* line 50 / 142: the fetch rejects
FetchRejects ==
  /\ pc = "fetch"
  /\ \E err \in Thrown : Catch(err)

\* lines 59-63 / 151-156: the body is read and the response relayed
Relay(text) ==
  LET r1 == [res EXCEPT !.status = upstream.status]
      r2 == [r1 EXCEPT !.headers.ct = Some(RelayContentType(upstream.ct))]
      r3 == RelayCors(variant, r2, req.origin, env)
  IN  /\ upstream' = [upstream EXCEPT !.phase = "body", !.text = text]
      /\ res' = ResSend(r3, text)
      /\ pc' = "done"
      /\ UNCHANGED <<variant, env, req, outbound, fetchCount>>

TextResolves ==
  /\ pc = "text"
  /\ \E text \in UpstreamTexts : Relay(text)

\* line 59 / 151: reading the body rejects
TextRejects ==
  /\ pc = "text"
  /\ \E err \in Thrown : Catch(err)

Next ==
  \/ Preflight
  \/ MethodNotAllowed
  \/ Misconfigured
  \/ Unauthorized
  \/ InvalidJSON
  \/ Forward
  \/ FetchResolves
  \/ FetchRejects
  \/ TextResolves
  \/ TextRejects

Spec == Init /\ [][Next]_vars

\* The event loop runs a ready continuation, and the upstream call is assumed
\* to complete or fail.
FairSpec == FlowInit /\ [][Next]_vars /\ WF_vars(Next)

TypeOK ==
  /\ pc \in {"start", "fetch", "text", "done"}
  /\ fetchCount \in 0..1
  /\ res.sent \in 0..1

----------------------------------------------------------------------------
\* Vocabulary of the properties

Sent == res.sent = 1
ListText == OrEmptySeq(env.ALLOWED_ORIGINS)

\* x is an entry of the comma-separated text: a maximal comma-free stretch
\* text[i..j] that is x surrounded by blanks only
Listed(text, x) ==
  /\ x # <<>>
  /\ x[1] # " " /\ x[Len(x)] # " "
  /\ \E i \in 1..(Len(text) + 1), j \in 0..Len(text) :
       /\ (i = 1 \/ text[i - 1] = ",")
       /\ (j = Len(text) \/ text[j + 1] = ",")
       /\ \A k \in i..j : text[k] # ","
       /\ \E a \in i..j, b \in i..j :
            /\ SubSeq(text, a, b) = x
            /\ \A k \in i..(a - 1) : text[k] = " "
            /\ \A k \in (b + 1)..j : text[k] = " "

\* the configured allow-list has an entry
ListNonEmpty == \E k \in 1..Len(ListText) : ListText[k] \notin {",", " "}

Relayed == pc = "done" /\ upstream.phase = "body"
Failed == pc = "done" /\ upstream.phase = "failed"
OwnResponse(code, error) ==
  /\ res.status = code
  /\ res.body = [kind |-> "json", error |-> error, detail |-> None, text |-> ""]

----------------------------------------------------------------------------
\* C1: every response sent, by either handler and on every path, carries
\* Access-Control-Allow-Methods: POST, OPTIONS, Access-Control-Allow-Headers:
\* Content-Type, X-Client-Token and Vary: Origin.
C1_FixedCorsHeaders ==
  Sent => /\ res.headers.acam = Some("POST, OPTIONS")
          /\ res.headers.acah = Some("Content-Type, X-Client-Token")
          /\ res.headers.vary = Some("Origin")

\* C2: with a non-empty allow-list and Origin: null, every response sent carries
\* Access-Control-Allow-Origin: null, whether or not null is listed.
C2_NullOriginAllowed ==
  (Sent /\ ListNonEmpty /\ req.origin = Some(NullOrigin))
    => res.headers.acao = Some(NullOrigin)

\* C3: with a non-empty allow-list and an Origin that is absent, or neither an
\* entry of the list nor "null", no response sent on any path carries an
\* Access-Control-Allow-Origin header.
C3_DeniedOriginGetsNoHeader ==
  (/\ Sent
   /\ ListNonEmpty
   /\ \/ req.origin = None
      \/ (~Listed(ListText, req.origin[1]) /\ req.origin[1] # NullOrigin))
    => res.headers.acao = None

\* a denied origin on the relayed response of the image-preview handler, where
\* setCors has run twice
C3_Witness ==
  /\ Relayed /\ Sent /\ variant = "image"
  /\ ListNonEmpty
  /\ req.origin = Some(<<"b">>)
  /\ res.headers.acao = None

\* C4 as stated: with GEMINI_API_KEY absent every request, of every method, is
\* answered 500 {error: "Server misconfigured: missing GEMINI_API_KEY"}.
C4_MissingKeyAlways500 ==
  (Sent /\ env.GEMINI_API_KEY = None)
    => OwnResponse(500, "Server misconfigured: missing GEMINI_API_KEY")

\* C4 amended: with GEMINI_API_KEY absent every POST request, whatever its token
\* header and body, is answered 500 {error: "Server misconfigured: missing
\* GEMINI_API_KEY"}.
C4_MissingKeyPost500 ==
  (Sent /\ env.GEMINI_API_KEY = None /\ req.method = "POST")
    => OwnResponse(500, "Server misconfigured: missing GEMINI_API_KEY")

\* a POST with a wrong token and an unparsable body, answered 500 for the key
C4_Witness ==
  /\ Sent /\ env.GEMINI_API_KEY = None /\ req.method = "POST"
  /\ env.CLIENT_TOKEN = Some("t") /\ req.token = Some("x")
  /\ req.body = JStr("{bad")
  /\ res.status = 500

TokenRequired == env.CLIENT_TOKEN # None /\ env.CLIENT_TOKEN[1] # ""
TokenMismatch == req.token = None \/ req.token[1] # env.CLIENT_TOKEN[1]

\* C5 as stated: with CLIENT_TOKEN configured and the token header omitted or
\* different the response is 401 {error: "Unauthorized"}; with no CLIENT_TOKEN
\* configured no request is answered with 401.
C5_TokenMismatchAlways401 ==
  /\ (Sent /\ TokenRequired /\ TokenMismatch) => OwnResponse(401, "Unauthorized")
  /\ (Sent /\ ~TokenRequired) => res.status # 401

\* C5 amended: with CLIENT_TOKEN configured, a POST request received while
\* GEMINI_API_KEY is set that omits the token header or sends a different value
\* is answered 401 {error: "Unauthorized"}; with no CLIENT_TOKEN configured the
\* handler never answers with its own 401 {error: "Unauthorized"} (a 401 of
\* the upstream is still relayed).
C5_TokenMismatchPost401 ==
  /\ (/\ Sent /\ TokenRequired /\ TokenMismatch
      /\ req.method = "POST"
      /\ env.GEMINI_API_KEY # None /\ env.GEMINI_API_KEY[1] # "")
       => OwnResponse(401, "Unauthorized")
  /\ (Sent /\ ~TokenRequired) => (res.status = 401 => Relayed /\ upstream.status = 401)

\* the token header omitted where a token is required
C5_Witness ==
  /\ Sent /\ TokenRequired /\ req.token = None /\ req.method = "POST"
  /\ env.GEMINI_API_KEY = Some("k")
  /\ res.status = 401

HasMime(b) == OptGet(OptGet(b, "generationConfig"), "response_mime_type") # Undefined

\* C6: the body sent upstream has generationConfig.response_mime_type absent
\* and every other field equal when the received body has the field, with any
\* value; it equals the received body when the field is not there.
C6_MimeTypeStripped ==
  outbound # None =>
    LET b == ParseBody(req.body).val
        f == outbound[1].body
    IN  IF HasMime(b)
        THEN f = [b EXCEPT !.v.generationConfig.v.response_mime_type = Undefined]
        ELSE f = b

C8_FailureDetailNonEmpty ==
  Failed =>
    /\ Sent
    /\ res.status = 502
    /\ res.body.kind = "json" /\ res.body.text = ""
    /\ res.body.error = "Upstream fetch failed"
    /\ res.body.detail # None /\ res.body.detail[1] # ""

EmptyThrown == {ThrownString(""), ErrorObj("", "")}

\* C8 amended: as stated, except that detail is a string that is non-empty for
\* every thrown value but those whose message and string form are both empty
\* (the empty string, an Error with an empty name and message), for which it is
\* the empty string.
C8_FailureDetail ==
  Failed =>
    /\ Sent
    /\ res.status = 502
    /\ res.body.kind = "json" /\ res.body.text = ""
    /\ res.body.error = "Upstream fetch failed"
    /\ res.body.detail # None
    /\ (res.body.detail[1] = "") <=> (upstream.err \in EmptyThrown)

\* the reading of the body threw an Error with an empty message after the
\* upstream had answered 200
C8_Witness ==
  /\ Failed /\ upstream.status = 200 /\ upstream.err = ErrorObj("Error", "")
  /\ res.body.detail = Some("Error")

Admitted ==
  /\ req.method = "POST"
  /\ env.GEMINI_API_KEY # None /\ env.GEMINI_API_KEY[1] # ""
  /\ (TokenRequired => ~TokenMismatch)
  /\ ParseBody(req.body).ok

\* C9 as stated: the upstream is contacted at most once and only after the
\* method, key, token and body checks have passed; an invocation that ends
\* with 204, 405, 500, 401 or 400 has sent nothing upstream; a failed call is
\* not retried.
C9_OneFetchAfterAdmission ==
  /\ fetchCount <= 1
  /\ fetchCount > 0 => Admitted
  /\ (outbound # None) <=> (fetchCount > 0)
  /\ (Sent /\ res.status \in {204, 405, 500, 401, 400}) => fetchCount = 0
  /\ Failed => fetchCount = 1

\* C9 amended: as stated, for an invocation that ends with one of the
\* handler's own 204, 405, 500, 401 or 400 responses (a 400 or 401 of the
\* upstream is relayed after the one request was sent).
C9_OneFetchAfterAdmissionOwn ==
  /\ fetchCount <= 1
  /\ fetchCount > 0 => Admitted
  /\ (outbound # None) <=> (fetchCount > 0)
  /\ (Sent /\ ~Relayed /\ res.status \in {204, 405, 500, 401, 400}) => fetchCount = 0
  /\ Failed => fetchCount = 1

\* a request rejected for its body after the key and token checks passed
C9_Witness ==
  /\ Sent /\ res.status = 400 /\ ~Relayed /\ fetchCount = 0
  /\ env.CLIENT_TOKEN = Some("t") /\ req.token = Some("t")

\* C10: every invocation produces exactly one terminal response, for an
\* admitted POST only after the upstream call and the reading of its body have
\* completed or one of them has failed, and, the upstream call completing or
\* failing, every invocation eventually responds.
C10_ExactlyOneResponse ==
  /\ [](res.sent <= 1)
  /\ []((pc = "done") <=> Sent)
  /\ []((Sent /\ fetchCount > 0) => upstream.phase \in {"body", "failed"})
  /\ [](Admitted /\ Sent => fetchCount > 0)
  /\ <>(pc = "done" /\ Sent)

\* an admitted POST answered after the body of the upstream response was read
C10_Witness ==
  /\ Admitted /\ Sent /\ pc = "done" /\ upstream.phase = "body"
  /\ upstream.text = "{\"candidates\":[]}"

====
